---- MODULE Spec2Model ----
(***************************************************************************)
(* A model of the FiltersCompiler rule converter (convert,                 *)
(* executeConversion) and of the filter builder (splitLines,               *)
(* stripComments, isExcluded, exclude, parseIncludeLine, include, compile,  *)
(* makeRevision, makeHeader, buildFilter, build).                          *)
(*                                                                         *)
(* A JavaScript string is a sequence of one-character strings, so that     *)
(* substring search, splitting, trimming and the regular expressions are   *)
(* computed position by position, as the engine computes them.             *)
(***************************************************************************)
EXTENDS Integers, Sequences, FiniteSets, TLC

VARIABLES
    \* ---- converter.js ----
    rulesList,      \* the argument of convert
    useSink,        \* whether the caller passed an `excluded` array
    lastIndex,      \* CSS_RULE_REPLACE_PATTERN.lastIndex (a /g regex keeps it)
    stepA,          \* per rule: the value of `rule` after the :style branch
    result,         \* the array convert returns
    excluded,       \* what convert pushed to the `excluded` array
    warned,         \* the arguments of logger.warn, in call order
    cpc,            \* "start" before the call of convert, "done" after it
    \* ---- builder: exclude ----
    xLines,         \* the argument `lines` of exclude
    xFile,          \* what readFile gives for the exclusions file
    xExclusions,    \* the local `exclusions` after splitLines
    xResult,        \* what exclude returns
    xpc,            \* "start" before the call of exclude, "done" after it
    \* ---- builder: compile ----
    tTemplate,      \* the argument `template` of compile
    tFiles,         \* the files of currentDir: name -> what readFile gives
    tFlattened,     \* the local `result` of compile when its loop ends
    tOrigin,        \* per flattened line: the template line it comes from
    tCompiled,      \* `result` after exclude and removeDuplicates
    tWarned,        \* the arguments of logger.warn, in call order
    tThrown,        \* whether compile ended by an exception
    tpc,            \* "start" before the call of compile, "done" after it
    \* ---- builder: build ----
    bDirs,          \* the directories of filtersDir, in readdirSync order
    now,            \* what new Date().getTime() returns
    builds,         \* the number of calls of build so far
    bIdx,           \* the position of the loop of build
    bBuilt,         \* the directories buildFilter returned from in this call
    revWrites,      \* per directory: the number of writes of revision.json
    bpc             \* "idle", "running", "done", or "thrown" when build
                    \* ended by an exception

cvars == <<rulesList, useSink, lastIndex, stepA, result, excluded, warned, cpc>>
xvars == <<xLines, xFile, xExclusions, xResult, xpc>>
tvars == <<tTemplate, tFiles, tFlattened, tOrigin, tCompiled, tWarned, tThrown, tpc>>

bvars == <<bDirs, now, builds, bIdx, bBuilt, revWrites, bpc>>

vars == <<cvars, xvars, tvars, bvars>>

----------------------------------------------------------------------------
(* Bounds of the model *)

\* the number of fragments a generated rule is made of
MaxChunks == 4
\* the length of a generated rule list made of sample rules
MaxRules == 2
\* the number of characters of a generated exclusions file
MaxExclusionChars == 4
\* the number of lines handed to exclude
MaxLines == 2
\* the number of lines of a generated template
MaxTemplateLines == 3
\* the number of directories under filtersDir
MaxDirs == 2
\* the number of calls of build
MaxBuilds == 3
\* the last reading of the clock
MaxTime == 2

----------------------------------------------------------------------------
(* String primitives of the JavaScript runtime *)

Min(S) == CHOOSE x \in S : \A y \in S : x <= y
Max(S) == CHOOSE x \in S : \A y \in S : x >= y

\* whether sub occurs in s at (1-based) position i
OccursAt(s, sub, i) ==
    /\ i >= 1
    /\ i + Len(sub) - 1 <= Len(s)
    /\ \A k \in 1..Len(sub) : s[i + k - 1] = sub[k]

\* String.prototype.indexOf(sub, from), 1-based; 0 when absent
IndexOfFrom(s, sub, from) ==
    LET c == {i \in from..(Len(s) - Len(sub) + 1) : OccursAt(s, sub, i)}
    IN  IF c = {} THEN 0 ELSE Min(c)

\* String.prototype.includes
includes(s, sub) == IndexOfFrom(s, sub, 1) # 0

\* String.prototype.startsWith / endsWith
startsWith(s, sub) == OccursAt(s, sub, 1)
endsWith(s, sub) == OccursAt(s, sub, Len(s) - Len(sub) + 1)

\* String.prototype.split(sep, 2) for a non-empty separator: the string is cut
\* at EVERY occurrence of sep and the first two pieces are kept
split2(s, sep) ==
    LET i == IndexOfFrom(s, sep, 1)
    IN  IF i = 0 THEN <<s>>
        ELSE LET from == i + Len(sep)
                 j == IndexOfFrom(s, sep, from)
             IN  << SubSeq(s, 1, i - 1),
                    IF j = 0 THEN SubSeq(s, from, Len(s))
                             ELSE SubSeq(s, from, j - 1) >>

\* the letters the model writes in upper case, for the /i flag
toLowerCase(c) ==
    CASE c = "X" -> "x"
      [] c = "H" -> "h"
      [] c = "R" -> "r"
      [] c = "C" -> "c"
      [] c = "S" -> "s"
      [] OTHER -> c

----------------------------------------------------------------------------
(* builder: strings *)

CRLF == {"\n", "\r"}
WhiteSpace == {" ", "\t", "\n", "\r"}

\* String.prototype.substring(a, b), a and b 0-based as in JavaScript: both
\* are clamped to 0..length and swapped when a > b
substring(s, a, b) ==
    LET ca == IF a < 0 THEN 0 ELSE IF a > Len(s) THEN Len(s) ELSE a
        cb == IF b < 0 THEN 0 ELSE IF b > Len(s) THEN Len(s) ELSE b
    IN  IF ca <= cb THEN SubSeq(s, ca + 1, cb) ELSE SubSeq(s, cb + 1, ca)

\* String.prototype.trim
trim(s) ==
    LET keep == {i \in 1..Len(s) : s[i] \notin WhiteSpace}
    IN  IF keep = {} THEN <<>> ELSE SubSeq(s, Min(keep), Max(keep))

RECURSIVE splitLinesFrom(_, _, _, _)
\* String.prototype.split(/[\r\n]+/) from position k on: cur is the piece
\* being read, acc the pieces cut off so far; a run of line breaks cuts once,
\* and the piece before the first run and after the last one is kept even
\* when it is empty
splitLinesFrom(s, k, cur, acc) ==
    IF k > Len(s) THEN Append(acc, cur)
    ELSE IF s[k] \in CRLF
         THEN IF k > 1 /\ s[k - 1] \in CRLF
              THEN splitLinesFrom(s, k + 1, cur, acc)
              ELSE splitLinesFrom(s, k + 1, <<>>, Append(acc, cur))
         ELSE splitLinesFrom(s, k + 1, Append(cur, s[k]), acc)

\* splitLines(string)
splitLines(string) == splitLinesFrom(string, 1, <<>>, <<>>)

\* line.match(new RegExp(source)) for a source made of literal characters and
\* ".", which matches any character but a line terminator; the empty source
\* matches every line
RegExpMatch(line, source) ==
    \E i \in 1..(Len(line) - Len(source) + 1) :
        \A k \in 1..Len(source) :
            \/ source[k] = line[i + k - 1]
            \/ source[k] = "." /\ line[i + k - 1] \notin CRLF

----------------------------------------------------------------------------
(* rule/rule-masks.js *)

MASK_ELEMENT_HIDING == <<"#", "#">>
MASK_ELEMENT_HIDING_EXCEPTION == <<"#", "@", "#">>
MASK_CSS == <<"#", "$", "#">>
MASK_CSS_EXCEPTION == <<"#", "@", "$", "#">>
MASK_CSS_EXTENDED_CSS_RULE == <<"#", "?", "#">>
MASK_CSS_EXCEPTION_EXTENDED_CSS_RULE == <<"#", "@", "?", "#">>
MASK_CSS_INJECT_EXTENDED_CSS_RULE == <<"#", "$", "?", "#">>
MASK_CSS_EXCEPTION_INJECT_EXTENDED_CSS_RULE == <<"#", "@", "$", "?", "#">>

----------------------------------------------------------------------------
(* converter.js *)

STYLE == <<":", "s", "t", "y", "l", "e">>
STYLE_OPEN == STYLE \o <<"(">>

\* CSS_RULE_REPLACE_PATTERN = /(.*):style\((.*)\)/g run by RegExp.prototype.exec
\* from lastIndex li (0-based): <<groups, new lastIndex>>, groups = <<>> for null.
\* Both (.*) are greedy: the first takes the LAST ":style(" that still has a
\* ")" behind it, the second runs to the LAST ")".
CssRuleExec(s, li) ==
    LET start == li + 1
        closes == {q \in start..Len(s) : s[q] = ")"}
        q == Max(closes)
        opens == IF closes = {} THEN {}
                 ELSE {p \in start..Len(s) :
                          OccursAt(s, STYLE_OPEN, p) /\ p + Len(STYLE_OPEN) <= q}
        p == Max(opens)
    IN  IF li > Len(s) \/ opens = {} THEN << <<>>, 0 >>
        ELSE << << SubSeq(s, start, q),
                   SubSeq(s, start, p - 1),
                   SubSeq(s, p + Len(STYLE_OPEN), q - 1) >>, q >>

\* String.prototype.match with a /g regex: lastIndex is set to 0, exec is
\* repeated until it fails, and the failing exec leaves lastIndex at 0.
\* The pattern consumes the whole of its first match's line, so a second
\* match could only start behind the last ")" where no ")" is left.
CssRuleMatch(s) == CssRuleExec(s, 0)[1] # <<>>

FIRST_PARTY == <<"f", "i", "r", "s", "t", "-", "p", "a", "r", "t", "y">>
FIRST_PARTY_REPLACEMENT ==
    <<"~", "t", "h", "i", "r", "d", "-", "p", "a", "r", "t", "y">>
XHR == <<"x", "h", "r">>
XHR_REPLACEMENT ==
    <<"x", "m", "l", "h", "t", "t", "p", "r", "e", "q", "u", "e", "s", "t">>
CSS == <<"c", "s", "s">>
CSS_REPLACEMENT == <<"s", "t", "y", "l", "e", "s", "h", "e", "e", "t">>
FRAME == <<"f", "r", "a", "m", "e">>
FRAME_REPLACEMENT ==
    <<"s", "u", "b", "d", "o", "c", "u", "m", "e", "n", "t">>

\* the positions where /([\$,])tok/i matches
OptionMatches(s, tok) ==
    {i \in 1..Len(s) :
        /\ s[i] \in {"$", ","}
        /\ i + Len(tok) <= Len(s)
        /\ \A k \in 1..Len(tok) : toLowerCase(s[i + k]) = tok[k]}

\* RegExp.prototype.test of /([\$,])tok/i
OptionTest(s, tok) == OptionMatches(s, tok) # {}

\* String.prototype.replace with /([\$,])tok/i (no g flag) and `$1repl`:
\* the leftmost match only
OptionReplace(s, tok, repl) ==
    LET m == OptionMatches(s, tok)
        i == Min(m)
    IN  IF m = {} THEN s
        ELSE SubSeq(s, 1, i) \o repl \o SubSeq(s, i + Len(tok) + 1, Len(s))

MSG_RULE == <<"R", "u", "l", "e", " ", "\"">>
MSG_CONVERTED ==
    <<"\"", " ", "c", "o", "n", "v", "e", "r", "t", "e", "d", " ", "t", "o", ":", " ">>
MSG_CANNOT ==
    <<"C", "a", "n", "n", "o", "t", " ", "c", "o", "n", "v", "e", "r", "t", " ">>

\* executeConversion as it would be if the pattern were probed with test()
\* instead of match(): exec then resumes from the lastIndex the previous rule
\* left behind
executeConversionStale(rule, parts, ruleMark, sink, li) ==
    LET domain == parts[1]
        rulePart == parts[2]
        ex == CssRuleExec(rulePart, li)
        groups == ex[1]
        res == domain \o ruleMark \o groups[2] \o <<" ", "{", " ">>
                      \o groups[3] \o <<" ", "}">>
        same == [rule |-> rule, pushed |-> <<>>, warn |-> <<>>, li |-> ex[2]]
    IN  IF domain = <<>> \/ groups = <<>> THEN same
        ELSE [rule |-> res, pushed |-> <<>>, warn |-> <<>>, li |-> ex[2]]

\* executeConversion(rule, parts, ruleMark, excluded) entered with
\* CSS_RULE_REPLACE_PATTERN.lastIndex = li; sink says whether `excluded` is an
\* array.  [rule: the returned rule, pushed: what was pushed to excluded,
\* warn: the logger.warn calls, li: lastIndex on return]
executeConversion(rule, parts, ruleMark, sink, li) ==
    LET domain == parts[1]
        rulePart == parts[2]
        ex == CssRuleExec(rulePart, 0)
        groups == ex[1]
        res == domain \o ruleMark \o groups[2] \o <<" ", "{", " ">>
                      \o groups[3] \o <<" ", "}">>
        message == MSG_RULE \o rule \o MSG_CONVERTED \o res
        same == [rule |-> rule, pushed |-> <<>>, warn |-> <<>>, li |-> li]
    IN  IF domain = <<>> THEN same
        ELSE IF ~CssRuleMatch(rulePart) THEN [same EXCEPT !.li = 0]
        ELSE IF Len(groups) # 3
             THEN [same EXCEPT !.warn = <<MSG_CANNOT \o rule>>, !.li = ex[2]]
        ELSE [rule |-> res,
              pushed |-> IF sink THEN << <<"!", " ">> \o message, rule >>
                                 ELSE <<>>,
              warn |-> <<>>,
              li |-> ex[2]]

\* the option rewrite of convert (lines 110-121)
replaceOptions(rule) ==
    IF \/ OptionTest(rule, FIRST_PARTY)
       \/ OptionTest(rule, XHR)
       \/ OptionTest(rule, CSS)
       \/ OptionTest(rule, FRAME)
    THEN OptionReplace(
             OptionReplace(
                 OptionReplace(
                     OptionReplace(rule, FIRST_PARTY, FIRST_PARTY_REPLACEMENT),
                     XHR, XHR_REPLACEMENT),
                 CSS, CSS_REPLACEMENT),
             FRAME, FRAME_REPLACEMENT)
    ELSE rule

\* the :style branch of convert (lines 92-107) for one rule
convertStyle(rule, sink, li) ==
    LET same == [rule |-> rule, pushed |-> <<>>, warn |-> <<>>, li |-> li]
    IN  IF ~includes(rule, STYLE) THEN same
        ELSE IF includes(rule, MASK_CSS_EXTENDED_CSS_RULE)
        THEN executeConversion(rule, split2(rule, MASK_CSS_EXTENDED_CSS_RULE),
                               MASK_CSS_INJECT_EXTENDED_CSS_RULE, sink, li)
        ELSE IF includes(rule, MASK_CSS_EXCEPTION_EXTENDED_CSS_RULE)
        THEN executeConversion(rule,
                               split2(rule, MASK_CSS_EXCEPTION_EXTENDED_CSS_RULE),
                               MASK_CSS_EXCEPTION_INJECT_EXTENDED_CSS_RULE, sink, li)
        ELSE IF includes(rule, MASK_ELEMENT_HIDING)
        THEN executeConversion(rule, split2(rule, MASK_ELEMENT_HIDING),
                               MASK_CSS, sink, li)
        ELSE IF includes(rule, MASK_ELEMENT_HIDING_EXCEPTION)
        THEN executeConversion(rule, split2(rule, MASK_ELEMENT_HIDING_EXCEPTION),
                               MASK_CSS_EXCEPTION, sink, li)
        ELSE same

RECURSIVE convertFrom(_, _, _, _)
\* the loop of convert over rules[k..], entered with the accumulated record acc
convertFrom(rules, k, sink, acc) ==
    IF k > Len(rules) THEN acc
    ELSE LET a == convertStyle(rules[k], sink, acc.li)
         IN  convertFrom(rules, k + 1, sink,
                 [stepA |-> Append(acc.stepA, a.rule),
                  result |-> Append(acc.result, replaceOptions(a.rule)),
                  pushed |-> acc.pushed \o a.pushed,
                  warn |-> acc.warn \o a.warn,
                  li |-> a.li])

\* convert(rulesList, excluded)
convert(rules, sink, li) ==
    convertFrom(rules, 1, sink,
        [stepA |-> <<>>, result |-> <<>>, pushed |-> <<>>, warn |-> <<>>,
         li |-> li])

----------------------------------------------------------------------------
(* builder: exclusions *)

\* one pass of the loop of isExcluded: whether the entry excludes the line
entryExcludes(line, entry) ==
    LET exclusion == trim(entry)
    IN  /\ ~startsWith(exclusion, <<"!">>)
        /\ IF startsWith(exclusion, <<"/">>) /\ endsWith(exclusion, <<"/">>)
           THEN RegExpMatch(line, substring(exclusion, 1, Len(exclusion) - 2))
           ELSE includes(line, exclusion)

\* isExcluded(line, exclusions)
isExcluded(line, exclusions) ==
    \E n \in 1..Len(exclusions) : entryExcludes(line, exclusions[n])

\* exclude(lines, exclusionsFileName), file being what readFile returns for
\* the exclusions file: [ok |-> FALSE] for null
exclude(lines, file) ==
    IF ~file.ok \/ file.text = <<>> THEN lines
    ELSE LET exclusions == splitLines(file.text)
             Keep(line) == ~isExcluded(line, exclusions)
         IN  SelectSeq(lines, Keep)

----------------------------------------------------------------------------
(* builder: inclusion and compilation *)

NoFile == [ok |-> FALSE, text |-> <<>>]
File(text) == [ok |-> TRUE, text |-> text]

\* readFile(path.join(currentDir, name)): null when the file cannot be read
readFile(files, name) == IF name \in DOMAIN files THEN files[name] ELSE NoFile

\* downloadFile(url): the remote resource, null when there is none
downloadFile(files, url) == readFile(files, url)

INCLUDE_DIRECTIVE == <<"@", "i", "n", "c", "l", "u", "d", "e", " ">>
STRIP_COMMENTS ==
    <<"/", "s", "t", "r", "i", "p", "C", "o", "m", "m", "e", "n", "t", "s">>
EXCLUDE_OPTION == <<"/", "e", "x", "c", "l", "u", "d", "e", "=">>
EXCLUDE_FILE == <<"e", "x", "c", "l", "u", "d", "e", ".", "t", "x", "t">>
MSG_INVALID_URL ==
    <<"I", "n", "v", "a", "l", "i", "d", " ", "i", "n", "c", "l", "u", "d", "e",
      " ", "u", "r", "l">>

\* stripComments(lines)
stripComments(lines) ==
    LET Keep(line) == ~startsWith(line, <<"!">>)
    IN  SelectSeq(lines, Keep)

RECURSIVE splitOnFrom(_, _, _, _, _)
\* String.prototype.split(ch) from position k on: every occurrence of ch
\* cuts, so two adjacent ones give an empty piece
splitOnFrom(s, ch, k, cur, acc) ==
    IF k > Len(s) THEN Append(acc, cur)
    ELSE IF s[k] = ch THEN splitOnFrom(s, ch, k + 1, <<>>, Append(acc, cur))
    ELSE splitOnFrom(s, ch, k + 1, Append(cur, s[k]), acc)

\* String.prototype.charAt(i), i 0-based: "" outside the string
charAt(s, i) == IF i >= 0 /\ i < Len(s) THEN <<s[i + 1]>> ELSE <<>>

\* stripEndQuotes(s)
stripEndQuotes(s) ==
    LET t0 == Len(s)
        quoted == charAt(s, 0) = <<"\"">>
        s1 == IF quoted THEN substring(s, 1, t0) ELSE s
        t1 == (IF quoted THEN t0 - 1 ELSE t0) - 1
    IN  IF charAt(s1, t1) = <<"\"">> THEN substring(s1, 0, t1) ELSE s1

RECURSIVE parseAttributes(_, _, _)
\* the loop of parseIncludeLine over parts[i..] (i 1-based), opt being the
\* options read so far
parseAttributes(parts, i, opt) ==
    IF i > Len(parts) THEN opt
    ELSE LET attribute == trim(parts[i])
         IN  parseAttributes(parts, i + 1,
                 IF startsWith(attribute, STRIP_COMMENTS)
                 THEN [opt EXCEPT !.stripComments = TRUE]
                 ELSE IF startsWith(attribute, EXCLUDE_OPTION)
                 THEN [opt EXCEPT !.exclude =
                          stripEndQuotes(substring(attribute,
                              IndexOfFrom(attribute, <<"=">>, 1), Len(attribute)))]
                 ELSE opt)

\* parseIncludeLine(line): parts[1] is undefined when the line holds no
\* space, and parts[1].trim() then throws a TypeError.  exclude = <<>> stands
\* for null and for "", which include treats alike
parseIncludeLine(line) ==
    LET parts == splitOnFrom(line, " ", 1, <<>>, <<>>)
    IN  IF Len(parts) < 2
        THEN [thrown |-> TRUE, url |-> <<>>, stripComments |-> FALSE,
              exclude |-> <<>>]
        ELSE parseAttributes(parts, 2,
                 [thrown |-> FALSE, url |-> stripEndQuotes(trim(parts[2])),
                  stripComments |-> FALSE, exclude |-> <<>>])

\* the file an include line names: downloaded when the url holds a colon,
\* read from currentDir otherwise
fetchIncluded(files, url) ==
    IF includes(url, <<":">>) THEN downloadFile(files, url)
    ELSE readFile(files, url)

\* if (options.exclude) result = exclude(result, options.exclude)
applyExclude(files, name, lines) ==
    IF name # <<>> THEN exclude(lines, readFile(files, name)) ELSE lines

\* if (options.stripComments) result = stripComments(result)
applyStripComments(strip, lines) ==
    IF strip THEN stripComments(lines) ELSE lines

\* the `result` of include before the conversion: the lines of the included
\* file, the exclusions applied first and the comments stripped after
includedLines(files, options, included) ==
    IF included.ok /\ included.text # <<>>
    THEN applyStripComments(options.stripComments,
             applyExclude(files, options.exclude, splitLines(included.text)))
    ELSE <<>>

\* include(line) from the parsed options on
includeWith(files, options) ==
    IF options.thrown THEN [thrown |-> TRUE, lines |-> <<>>, warn |-> <<>>]
    ELSE IF options.url = <<>>
    THEN [thrown |-> FALSE, lines |-> <<>>, warn |-> <<MSG_INVALID_URL>>]
    ELSE [thrown |-> FALSE,
          lines |-> convert(includedLines(files, options,
                                fetchIncluded(files, options.url)),
                            FALSE, 0).result,
          warn |-> <<>>]

\* include(line): [thrown, lines: the lines returned, warn: logger.warn calls]
include(files, line) == includeWith(files, parseIncludeLine(line))

RECURSIVE removeDuplicatesFrom(_, _, _)
\* the loop of utils.removeDuplicates over lines[k..]: a line is kept when
\* it is not among the lines kept so far
removeDuplicatesFrom(lines, k, acc) ==
    IF k > Len(lines) THEN acc
    ELSE removeDuplicatesFrom(lines, k + 1,
             IF \E j \in 1..Len(acc) : acc[j] = lines[k] THEN acc
             ELSE Append(acc, lines[k]))

\* utils.removeDuplicates: the first occurrence of every line, in order
removeDuplicates(lines) == removeDuplicatesFrom(lines, 1, <<>>)

\* the lines of inc, each trimmed
trimAll(inc) == [k \in 1..Len(inc) |-> trim(inc[k])]

\* one pass of the loop of compile on an @include line, inc being what
\* include gave: its lines are pushed trimmed, and an exception of include
\* ends compile
pushIncluded(acc, n, inc) ==
    [thrown |-> inc.thrown,
     result |-> acc.result \o trimAll(inc.lines),
     origin |-> acc.origin \o [k \in 1..Len(inc.lines) |-> n],
     warn |-> acc.warn \o inc.warn]

\* one pass of the loop of compile on any other line
pushLine(acc, n, line) ==
    [thrown |-> FALSE,
     result |-> Append(acc.result, trim(line)),
     origin |-> Append(acc.origin, n),
     warn |-> acc.warn]

RECURSIVE compileFrom(_, _, _, _)
\* the loop of compile over lines[n..], acc being [thrown, result, origin,
\* warn] so far; origin[k] is the number of the template line result[k]
\* comes from
compileFrom(files, lines, n, acc) ==
    IF n > Len(lines) \/ acc.thrown THEN acc
    ELSE compileFrom(files, lines, n + 1,
             IF startsWith(lines[n], INCLUDE_DIRECTIVE)
             THEN pushIncluded(acc, n, include(files, trim(lines[n])))
             ELSE pushLine(acc, n, lines[n]))

\* the end of compile (lines 395-396), flat being what its loop made: the
\* directory's exclusions are applied and the duplicates removed
compileEnd(files, flat) ==
    [thrown |-> flat.thrown,
     flattened |-> flat.result,
     origin |-> flat.origin,
     warn |-> flat.warn,
     compiled |-> IF flat.thrown THEN <<>>
                  ELSE removeDuplicates(
                           exclude(flat.result, readFile(files, EXCLUDE_FILE)))]

\* compile(template) up to the hand-off to the validator and the sorter:
\* [thrown, flattened, origin, warn, compiled]
compile(files, template) ==
    compileEnd(files,
        compileFrom(files, splitLines(template), 1,
            [thrown |-> FALSE, result |-> <<>>, origin |-> <<>>, warn |-> <<>>]))

----------------------------------------------------------------------------
(* builder: revision, header, buildFilter *)

NoRevision == [ok |-> FALSE, version |-> <<>>, timeUpdated |-> 0]
NoFilter == [ok |-> FALSE, header |-> <<>>, body |-> <<>>]

\* "1.0.0.0"
BaselineVersion == <<1, 0, 0, 0>>

\* version.increment: the last segment of the dotted version plus one
increment(v) == [v EXCEPT ![Len(v)] = v[Len(v)] + 1]

\* makeRevision(path): current is what readFile gives for revision.json as
\* the previous build wrote it, clock the reading of new Date().getTime()
makeRevision(current, clock) ==
    [ok |-> TRUE,
     version |-> IF current.ok /\ current.version # <<>>
                 THEN increment(current.version)
                 ELSE BaselineVersion,
     timeUpdated |-> clock]

\* makeHeader(metadataFile, revision): throws when metadata.json cannot be
\* read ("missing") or JSON.parse rejects it ("malformed")
makeHeader(metadata, revision) ==
    IF metadata # "ok" THEN [thrown |-> TRUE, lines |-> <<>>]
    ELSE [thrown |-> FALSE,
          lines |-> <<"Title", "Description", revision.version,
                      revision.timeUpdated, "Expires">>]

\* the end of buildFilter, from the revision, the compiled lines and the
\* header on: filter.txt and revision.json are written when neither compile
\* nor makeHeader threw; failed and written are the directory and the number
\* of writes of revision.json an exception leaves behind
writeFilter(failed, written, revision, compiled, header) ==
    IF compiled.thrown \/ header.thrown
    THEN [thrown |-> TRUE, dir |-> failed, writes |-> written]
    ELSE [thrown |-> FALSE,
          dir |-> [failed EXCEPT
                     !.filter = [ok |-> TRUE, header |-> header.lines,
                                 body |-> compiled.compiled],
                     !.revision = revision],
          writes |-> 1]

\* buildFilter as it would be if revision.json were written as soon as the
\* revision is made, before the header is built
buildFilterEarlyWrite(dir, clock) ==
    IF ~dir.template.ok \/ dir.template.text = <<>>
    THEN [thrown |-> TRUE, dir |-> dir, writes |-> 0]
    ELSE writeFilter([dir EXCEPT !.revision = makeRevision(dir.revision, clock)],
                     1,
                     makeRevision(dir.revision, clock),
                     compile(dir.files, dir.template.text),
                     makeHeader(dir.metadata,
                                makeRevision(dir.revision, clock)))

\* buildFilter(filterDir): [thrown, dir: the directory afterwards, writes:
\* the number of writes of revision.json]
buildFilter(dir, clock) ==
    IF ~dir.template.ok \/ dir.template.text = <<>>
    THEN [thrown |-> TRUE, dir |-> dir, writes |-> 0]
    ELSE writeFilter(dir, 0,
                     makeRevision(dir.revision, clock),
                     compile(dir.files, dir.template.text),
                     makeHeader(dir.metadata,
                                makeRevision(dir.revision, clock)))

----------------------------------------------------------------------------
(* Inputs *)

RECURSIVE ChunkStrings(_, _)
\* the strings made of at most n fragments of the set chunks
ChunkStrings(chunks, n) ==
    IF n = 0 THEN {<<>>}
    ELSE LET prev == ChunkStrings(chunks, n - 1)
         IN  prev \cup {c \o r : c \in chunks, r \in prev}

RECURSIVE ListsUpTo(_, _)
\* the lists of at most n elements of S
ListsUpTo(S, n) ==
    IF n = 0 THEN {<<>>}
    ELSE LET prev == ListsUpTo(S, n - 1)
         IN  prev \cup {<<x>> \o l : x \in S, l \in prev}

\* fragments of cosmetic rules
StyleChunks ==
    { <<"a">>, <<")">>, STYLE_OPEN,
      MASK_ELEMENT_HIDING, MASK_ELEMENT_HIDING_EXCEPTION,
      MASK_CSS_EXTENDED_CSS_RULE, MASK_CSS_EXCEPTION_EXTENDED_CSS_RULE,
      <<"$">> \o XHR }

\* fragments of network rules with options
OptionChunks ==
    { <<"a">>, <<"$">> \o XHR, <<",">> \o XHR, <<",", "X", "H", "R">>,
      <<",">> \o FRAME, <<"$">> \o CSS, <<",">> \o FIRST_PARTY, XHR }

\* rules a list of several rules is made of
SampleRules ==
    { <<"a">>,
      <<"a">> \o MASK_ELEMENT_HIDING \o <<"b">> \o STYLE_OPEN \o <<"c", ")">>,
      <<"a">> \o MASK_ELEMENT_HIDING_EXCEPTION \o STYLE_OPEN \o <<")">>,
      MASK_ELEMENT_HIDING \o <<"b">> \o STYLE_OPEN \o <<"c", ")">>,
      <<"a">> \o MASK_ELEMENT_HIDING \o STYLE,
      <<"a">> \o MASK_ELEMENT_HIDING \o <<"b">> \o STYLE_OPEN
              \o <<"c">> \o MASK_ELEMENT_HIDING \o <<"d", ")">>,
      <<"a", "$">> \o XHR \o <<",">> \o FRAME }

StyleInputs ==
    {<<r>> : r \in ChunkStrings(StyleChunks, MaxChunks)}
        \cup ListsUpTo(SampleRules, MaxRules)

OptionInputs ==
    {<<r>> : r \in ChunkStrings(OptionChunks, MaxChunks)}
        \cup ListsUpTo(SampleRules, MaxRules)

ExclusionChars == {<<"a">>, <<"b">>, <<"/">>, <<"!">>, <<"\n">>, <<".">>}

ExclusionFiles ==
    {NoFile} \cup {File(t) : t \in ChunkStrings(ExclusionChars, MaxExclusionChars)}

ExcludedLines == { <<"a">>, <<"b">>, <<"a", "b">>, <<"!", "a">>, <<"/", "b">> }


RECURSIVE JoinLines(_)
\* the lines joined by line feeds
JoinLines(ls) ==
    IF ls = <<>> THEN <<>>
    ELSE IF Len(ls) = 1 THEN ls[1]
    ELSE ls[1] \o <<"\n">> \o JoinLines(Tail(ls))

\* lines of a template: a comment, a rule, a blank line, includes of the
\* files f and g, and include directives without a url
TemplateLines ==
    { <<"!", "t">>,
      <<"r">>,
      <<>>,
      INCLUDE_DIRECTIVE \o <<"f", " ">> \o STRIP_COMMENTS,
      INCLUDE_DIRECTIVE \o <<"g">>,
      INCLUDE_DIRECTIVE \o <<"g", " ">> \o EXCLUDE_OPTION \o <<"\"", "x", "\"">>,
      INCLUDE_DIRECTIVE,
      INCLUDE_DIRECTIVE \o <<" ">> \o STRIP_COMMENTS,
      INCLUDE_DIRECTIVE \o <<"\"", "\"">> }

Templates == {JoinLines(ls) : ls \in ListsUpTo(TemplateLines, MaxTemplateLines)}

\* the directories compile runs in
FileSystems ==
    { (<<"f">> :> f) @@ (<<"g">> :> g) @@ (<<"x">> :> x) @@ (EXCLUDE_FILE :> e) :
        f \in { NoFile,
                File(<<"!", "c", "\n", "r">>),
                File(<<" ", "!", "c", "\n", "s">>),
                File(<<"a">> \o MASK_ELEMENT_HIDING \o <<"b">> \o STYLE_OPEN
                         \o <<"c", ")", "\r", "\n", "!", "c">>) },
        g \in { File(<<"!", "d", "\n", "s">>), File(<<"r", "\n">>) },
        x \in { NoFile, File(<<"s">>) },
        e \in { NoFile, File(<<"r">>) } }


\* a filter directory before its first build
Directory(template, metadata) ==
    [template |-> template, metadata |-> metadata, files |-> << >>,
     revision |-> NoRevision, filter |-> NoFilter]

\* a directory that builds, and directories with each fatal defect
Directories ==
    { Directory(File(<<"r">>), "ok"),
      Directory(NoFile, "ok"),
      Directory(File(<<"r">>), "missing"),
      Directory(File(<<"r">>), "malformed"),
      Directory(File(INCLUDE_DIRECTIVE), "ok") }

----------------------------------------------------------------------------
(* The state machines *)

\* the converter before any call, for the runs that do not call it directly
ConvertIdle ==
    /\ rulesList = <<>>
    /\ useSink = FALSE
    /\ lastIndex = 0
    /\ stepA = <<>>
    /\ result = <<>>
    /\ excluded = <<>>
    /\ warned = <<>>
    /\ cpc = "idle"

ExcludeIdle ==
    /\ xLines = <<>>
    /\ xFile = NoFile
    /\ xExclusions = <<>>
    /\ xResult = <<>>
    /\ xpc = "idle"

CompileIdle ==
    /\ tTemplate = <<>>
    /\ tFiles = << >>
    /\ tFlattened = <<>>
    /\ tOrigin = <<>>
    /\ tCompiled = <<>>
    /\ tWarned = <<>>
    /\ tThrown = FALSE
    /\ tpc = "idle"

BuildIdle ==
    /\ bDirs = <<>>
    /\ now = 0
    /\ builds = 0
    /\ bIdx = 1
    /\ bBuilt = {}
    /\ revWrites = <<>>
    /\ bpc = "off"

InitConvertOn(inputs) ==
    /\ rulesList \in inputs
    /\ useSink \in BOOLEAN
    /\ lastIndex = 0
    /\ stepA = <<>>
    /\ result = <<>>
    /\ excluded = <<>>
    /\ warned = <<>>
    /\ cpc = "start"

\* a call convert(rulesList) or convert(rulesList, excluded)
Convert ==
    /\ cpc = "start"
    /\ LET r == convert(rulesList, useSink, lastIndex)
       IN  /\ stepA' = r.stepA
           /\ result' = r.result
           /\ excluded' = r.pushed
           /\ warned' = r.warn
           /\ lastIndex' = r.li
    /\ cpc' = "done"
    /\ UNCHANGED <<rulesList, useSink>>

Init == InitConvertOn(StyleInputs) /\ ExcludeIdle /\ CompileIdle /\ BuildIdle

Next == Convert /\ UNCHANGED <<xvars, tvars, bvars>>

Spec == Init /\ [][Next]_vars

InitOptions == InitConvertOn(OptionInputs) /\ ExcludeIdle /\ CompileIdle /\ BuildIdle

SpecOptions == InitOptions /\ [][Next]_vars

InitExclude ==
    /\ ConvertIdle
    /\ CompileIdle
    /\ BuildIdle
    /\ xLines \in ListsUpTo(ExcludedLines, MaxLines)
    /\ xFile \in ExclusionFiles
    /\ xExclusions = <<>>
    /\ xResult = <<>>
    /\ xpc = "start"

\* a call exclude(xLines, name) where readFile gives xFile for the name
Exclude ==
    /\ xpc = "start"
    /\ xExclusions' = IF ~xFile.ok \/ xFile.text = <<>> THEN <<>>
                      ELSE splitLines(xFile.text)
    /\ xResult' = exclude(xLines, xFile)
    /\ xpc' = "done"
    /\ UNCHANGED <<xLines, xFile>>

NextExclude == Exclude /\ UNCHANGED <<cvars, tvars, bvars>>

SpecExclude == InitExclude /\ [][NextExclude]_vars

InitCompile ==
    /\ ConvertIdle
    /\ ExcludeIdle
    /\ BuildIdle
    /\ tTemplate \in Templates
    /\ tFiles \in FileSystems
    /\ tFlattened = <<>>
    /\ tOrigin = <<>>
    /\ tCompiled = <<>>
    /\ tWarned = <<>>
    /\ tThrown = FALSE
    /\ tpc = "start"

\* a call compile(tTemplate) with currentDir holding tFiles
Compile ==
    /\ tpc = "start"
    /\ \E c \in {compile(tFiles, tTemplate)} :
           /\ tFlattened' = c.flattened
           /\ tOrigin' = c.origin
           /\ tCompiled' = c.compiled
           /\ tWarned' = c.warn
           /\ tThrown' = c.thrown
    /\ tpc' = "done"
    /\ UNCHANGED <<tTemplate, tFiles>>

NextCompile == Compile /\ UNCHANGED <<cvars, xvars, bvars>>

SpecCompile == InitCompile /\ [][NextCompile]_vars


InitBuild ==
    /\ ConvertIdle
    /\ ExcludeIdle
    /\ CompileIdle
    /\ bDirs \in ListsUpTo(Directories, MaxDirs)
    /\ now = 0
    /\ builds = 0
    /\ bIdx = 1
    /\ bBuilt = {}
    /\ revWrites = [d \in 1..Len(bDirs) |-> 0]
    /\ bpc = "idle"

\* the clock advances
Tick ==
    /\ now < MaxTime
    /\ now' = now + 1
    /\ UNCHANGED <<bDirs, builds, bIdx, bBuilt, revWrites, bpc>>

\* build(filtersDir, ...) is called: readdirSync lists the directories
StartBuild ==
    /\ bpc \in {"idle", "done", "thrown"}
    /\ builds < MaxBuilds
    /\ builds' = builds + 1
    /\ bIdx' = 1
    /\ bBuilt' = {}
    /\ bpc' = IF Len(bDirs) = 0 THEN "done" ELSE "running"
    /\ UNCHANGED <<bDirs, now, revWrites>>

\* one pass of the loop of build: buildFilter on the next directory; an
\* exception of buildFilter is not caught and ends build
BuildDirectory ==
    /\ bpc = "running"
    /\ \E b \in {buildFilter(bDirs[bIdx], now)} :
           /\ bDirs' = [bDirs EXCEPT ![bIdx] = b.dir]
           /\ revWrites' = [revWrites EXCEPT ![bIdx] = @ + b.writes]
           /\ bBuilt' = IF b.thrown THEN bBuilt ELSE bBuilt \cup {bIdx}
           /\ bpc' = IF b.thrown THEN "thrown"
                     ELSE IF bIdx = Len(bDirs) THEN "done" ELSE "running"
           /\ bIdx' = IF b.thrown THEN bIdx ELSE bIdx + 1
    /\ UNCHANGED <<now, builds>>

NextBuild ==
    \/ Tick /\ UNCHANGED <<cvars, xvars, tvars>>
    \/ StartBuild /\ UNCHANGED <<cvars, xvars, tvars>>
    \/ BuildDirectory /\ UNCHANGED <<cvars, xvars, tvars>>

SpecBuild == InitBuild /\ [][NextBuild]_vars

----------------------------------------------------------------------------
(* Properties of convert *)

\* whether some legacy option token follows a "$" or a ","
HasLegacyOption(rule) ==
    \E tok \in {FIRST_PARTY, XHR, CSS, FRAME} : OptionMatches(rule, tok) # {}

\* C1: convert returns a list as long as its input whose i-th element is what
\* convert makes of the i-th rule alone, and a rule with neither ":style" nor
\* a legacy option behind "$" or "," is returned as it is, at its position.
ConvertKeepsLengthAndOrder ==
    cpc = "done" =>
        /\ Len(result) = Len(rulesList)
        /\ \A i \in 1..Len(rulesList) :
            /\ result[i] = convert(<<rulesList[i]>>, useSink, 0).result[1]
            /\ (~includes(rulesList[i], STYLE) /\ ~HasLegacyOption(rulesList[i]))
                   => result[i] = rulesList[i]

\* a list of two rules with ":style", both rewritten by convert
ConvertKeepsLengthAndOrderWitness ==
    /\ cpc = "done"
    /\ Len(rulesList) = 2
    /\ result[1] # rulesList[1]
    /\ includes(rulesList[2], STYLE)
    /\ result[2] # rulesList[2]

\* the dialect masks in the order convert probes them, each with the mask
\* the converted rule is written with
MaskPairs ==
    << <<MASK_CSS_EXTENDED_CSS_RULE, MASK_CSS_INJECT_EXTENDED_CSS_RULE>>,
       <<MASK_CSS_EXCEPTION_EXTENDED_CSS_RULE,
         MASK_CSS_EXCEPTION_INJECT_EXTENDED_CSS_RULE>>,
       <<MASK_ELEMENT_HIDING, MASK_CSS>>,
       <<MASK_ELEMENT_HIDING_EXCEPTION, MASK_CSS_EXCEPTION>> >>

HasMask(rule) == \E n \in 1..Len(MaskPairs) : includes(rule, MaskPairs[n][1])

\* the first pair, in probing order, whose mask the rule contains
MatchedPair(rule) ==
    MaskPairs[Min({n \in 1..Len(MaskPairs) : includes(rule, MaskPairs[n][1])})]

\* everything before the first occurrence of the matched mask
DomainOf(rule) ==
    SubSeq(rule, 1, IndexOfFrom(rule, MatchedPair(rule)[1], 1) - 1)

\* everything after the first occurrence of the matched mask
SelectorAndStyleOf(rule) ==
    SubSeq(rule,
           IndexOfFrom(rule, MatchedPair(rule)[1], 1) + Len(MatchedPair(rule)[1]),
           Len(rule))

\* C2: a rule with ":style(" and a dialect mask is split at the first
\* occurrence of the mask into domain (whatever it is) and selectorAndStyle
\* (all the rest); when selectorAndStyle matches the pattern, Step A yields
\* domain + outputMask + selector + " { " + styleBody + " }".
StyleRuleSplitAtFirstMask ==
    cpc = "done" =>
        \A i \in 1..Len(rulesList) :
            LET rule == rulesList[i]
                g == CssRuleExec(SelectorAndStyleOf(rule), 0)[1]
            IN  (/\ includes(rule, STYLE_OPEN)
                 /\ HasMask(rule)
                 /\ CssRuleMatch(SelectorAndStyleOf(rule)))
                    => stepA[i] = DomainOf(rule) \o MatchedPair(rule)[2] \o g[2]
                                    \o <<" ", "{", " ">> \o g[3] \o <<" ", "}">>

RECURSIVE ReplaceEveryOption(_, _, _)
\* s with every match of /([\$,])tok/i rewritten, the delimiter kept
ReplaceEveryOption(s, tok, repl) ==
    LET m == OptionMatches(s, tok)
        i == Min(m)
    IN  IF m = {} THEN s
        ELSE SubSeq(s, 1, i) \o repl
                \o ReplaceEveryOption(SubSeq(s, i + Len(tok) + 1, Len(s)), tok, repl)

\* C3: whatever Step A did, every legacy option token behind "$" or ","
\* (in any letter case) is rewritten to its canonical token, the four
\* rewrites together, the delimiter and all other characters kept.
EveryLegacyOptionRewritten ==
    cpc = "done" =>
        \A i \in 1..Len(rulesList) :
            result[i] =
                ReplaceEveryOption(
                    ReplaceEveryOption(
                        ReplaceEveryOption(
                            ReplaceEveryOption(stepA[i],
                                FIRST_PARTY, FIRST_PARTY_REPLACEMENT),
                            XHR, XHR_REPLACEMENT),
                        CSS, CSS_REPLACEMENT),
                    FRAME, FRAME_REPLACEMENT)

\* C4: a rule with ":style" whose part after the dialect mask the pattern
\* cannot decompose is left as it is by Step A, logger.warn is called for it
\* and nothing is pushed to the excluded array for it.
UndecomposableStyleWarns ==
    cpc = "done" =>
        \A i \in 1..Len(rulesList) :
            LET rule == rulesList[i]
            IN  (/\ includes(rule, STYLE)
                 /\ HasMask(rule)
                 /\ ~CssRuleMatch(SelectorAndStyleOf(rule)))
                    => /\ stepA[i] = rule
                       /\ \E w \in 1..Len(warned) : warned[w] = MSG_CANNOT \o rule
                       /\ \A e \in 1..Len(excluded) : excluded[e] # rule

----------------------------------------------------------------------------
(* Properties of exclude *)

\* what an exclusions entry is stated to do: a comment excludes nothing, a
\* "/body/" entry excludes the lines the pattern body matches, any other
\* entry the lines that contain it
StatedEntryExcludes(line, entry) ==
    /\ ~startsWith(entry, <<"!">>)
    /\ IF Len(entry) >= 2 /\ startsWith(entry, <<"/">>) /\ endsWith(entry, <<"/">>)
       THEN RegExpMatch(line, SubSeq(entry, 2, Len(entry) - 1))
       ELSE includes(line, entry)

\* the exclusions file was read and split
ExclusionsLoaded == xpc = "done" /\ xFile.ok /\ xFile.text # <<>>

\* an entry that is not empty and, when wrapped in slashes, has a pattern body
PlainEntry(entry) ==
    /\ entry # <<>>
    /\ (startsWith(entry, <<"/">>) /\ endsWith(entry, <<"/">>)) => Len(entry) >= 3

\* C5: with a readable exclusions resource, exclude returns, in their order,
\* exactly the lines that no non-comment entry matches, a "/body/" entry
\* matching as the pattern body.  Stated for the resources whose split gives
\* no empty entry and no empty pattern body, so that it rests neither on how
\* line breaks are split nor on what "//" means.
ExcludeRemovesExactlyMatching ==
    (ExclusionsLoaded /\ \A n \in 1..Len(xExclusions) : PlainEntry(xExclusions[n]))
        => LET Kept(line) ==
                   \A n \in 1..Len(xExclusions) :
                       ~StatedEntryExcludes(line, xExclusions[n])
           IN  xResult = SelectSeq(xLines, Kept)

\* C10: splitting a content on runs of CR/LF gives non-empty entries only,
\* wherever the runs are in the content.
SplitYieldsNoEmptyEntry ==
    ExclusionsLoaded => \A n \in 1..Len(xExclusions) : xExclusions[n] # <<>>

----------------------------------------------------------------------------
(* Properties of compile *)

\* the logical lines of the template compile was called with
TemplateLinesOf == splitLines(tTemplate)

\* an include directive with nothing, or only spaces, after the prefix
EmptyUrlDirective(line) ==
    /\ startsWith(line, INCLUDE_DIRECTIVE)
    /\ trim(SubSeq(line, Len(INCLUDE_DIRECTIVE) + 1, Len(line))) = <<>>

\* the numbers of the template lines that are such directives
EmptyUrlLines ==
    {n \in 1..Len(TemplateLinesOf) : EmptyUrlDirective(TemplateLinesOf[n])}

\* the template lines that are not include directives
DirectLines ==
    {n \in 1..Len(TemplateLinesOf) :
        ~startsWith(TemplateLinesOf[n], INCLUDE_DIRECTIVE)}

\* the flattened lines that come from template line n, in order
FlattenedFrom(n) ==
    LET at == {k \in 1..Len(tOrigin) : tOrigin[k] = n}
        Nth(S, j) == CHOOSE k \in S : Cardinality({m \in S : m < k}) = j - 1
    IN  [j \in 1..Cardinality(at) |-> tFlattened[Nth(at, j)]]

IsComment(line) == startsWith(line, <<"!">>)

\* C7: an include directive with an empty or missing url makes the resolver
\* log a warning and return nothing, without throwing: it contributes no
\* line and compile goes on with the template lines that follow.
EmptyIncludeWarns ==
    (tpc = "done" /\ EmptyUrlLines # {}) =>
        /\ ~tThrown
        /\ Len(SelectSeq(tWarned, LAMBDA w : w = MSG_INVALID_URL))
               >= Cardinality(EmptyUrlLines)
        /\ \A n \in EmptyUrlLines : FlattenedFrom(n) = <<>>
        /\ \A n \in DirectLines : FlattenedFrom(n) = <<trim(TemplateLinesOf[n])>>

\* C9: no line contributed by an include that carries /stripComments starts
\* with "!" in the flattened (trimmed) list, while the lines written in the
\* template itself, and the "!" lines of an include without the flag, are
\* in the flattened list at their place.
StripCommentsScoped ==
    (tpc = "done" /\ ~tThrown) =>
        /\ \A k \in 1..(Len(tOrigin) - 1) : tOrigin[k] <= tOrigin[k + 1]
        /\ \A n \in DirectLines : FlattenedFrom(n) = <<trim(TemplateLinesOf[n])>>
        /\ \A n \in (1..Len(TemplateLinesOf)) \ DirectLines :
            LET options == parseIncludeLine(trim(TemplateLinesOf[n]))
                content == splitLines(readFile(tFiles, options.url).text)
            IN  IF options.stripComments
                THEN \A j \in 1..Len(FlattenedFrom(n)) :
                         ~IsComment(FlattenedFrom(n)[j])
                ELSE options.exclude = <<>> =>
                         SelectSeq(FlattenedFrom(n), IsComment)
                             = SelectSeq(content, IsComment)

----------------------------------------------------------------------------
(* Properties of build *)

\* the dotted-segment ordering of versions
VersionLess(v, w) ==
    \E k \in 1..Len(v) :
        /\ k <= Len(w)
        /\ \A j \in 1..(k - 1) : v[j] = w[j]
        /\ v[k] < w[k]

\* a directory whose template and metadata are valid
ValidDirectory(dir) ==
    /\ dir.template.ok
    /\ dir.template.text # <<>>
    /\ ~compile(dir.files, dir.template.text).thrown
    /\ dir.metadata = "ok"

\* C6: a fatal failure of one directory's build stops that directory only:
\* when build is over, every directory with a valid template and metadata
\* has been built, its filter.txt and revision.json written.
BatchIsolatesFailures ==
    bpc \in {"done", "thrown"} =>
        \A d \in 1..Len(bDirs) :
            ValidDirectory(bDirs[d]) =>
                /\ d \in bBuilt
                /\ bDirs[d].filter.ok
                /\ bDirs[d].revision.ok

\* what a step does to the revision of directory d; strict says whether
\* timeUpdated must grow or may stay
RevisionStep(d, strict) ==
    LET old == bDirs[d].revision
        new == bDirs'[d].revision
    IN  IF d \in bBuilt' \ bBuilt
        THEN /\ revWrites'[d] = revWrites[d] + 1
             /\ new.ok
             /\ new.version = IF old.ok THEN increment(old.version)
                              ELSE BaselineVersion
             /\ old.ok => VersionLess(old.version, new.version)
             /\ new.timeUpdated = now
             /\ old.ok => IF strict THEN new.timeUpdated > old.timeUpdated
                          ELSE new.timeUpdated >= old.timeUpdated
        ELSE /\ new = old
             /\ revWrites'[d] = revWrites[d]

\* C8 as stated: over the successful builds of a directory the version and
\* timeUpdated both grow strictly, revision.json being written once per
\* successful build and not by a build that fails.
RevisionGrowsStrictly ==
    [][\A d \in 1..Len(bDirs) : RevisionStep(d, TRUE)]_vars

\* C8 amended: the first successful build writes the baseline version, each
\* later one the increment of the persisted version, which grows strictly;
\* timeUpdated is the clock reading of the build and never decreases;
\* revision.json is written once per successful build and not by a build
\* that fails.
RevisionProgression ==
    [][\A d \in 1..Len(bDirs) : RevisionStep(d, FALSE)]_vars

\* a directory built three times, after a failing directory's build in the
\* same run of build left its own revision.json unwritten
RevisionProgressionWitness ==
    /\ bpc = "thrown"
    /\ \E d \in 1..Len(bDirs) :
        /\ bDirs[d].revision.ok
        /\ bDirs[d].revision.version = increment(increment(BaselineVersion))
        /\ revWrites[d] = 3
    /\ \E d \in 1..Len(bDirs) : ~bDirs[d].revision.ok /\ revWrites[d] = 0

====
